---- MODULE Spec2Model ----
(***************************************************************************)
(* fastify-mongo-sanitize: the sanitization engine (sanitizeString,        *)
(* sanitizeArray, sanitizeObject, sanitizeValue), the request loop         *)
(* (handleRequest), the route normaliser (cleanUrl) and the plugin         *)
(* registration with its preHandler hook and request.sanitize decorator.   *)
(*                                                                         *)
(* A JavaScript string is a sequence of one-character strings.  A          *)
(* JavaScript value is a record [t |-> tag, v |-> payload]; a plain object *)
(* is the sequence of its own enumerable entries in Object.entries order.  *)
(***************************************************************************)
EXTENDS Integers, Sequences, FiniteSets, TLC

(***************************************************************************)
(* Bounds of the exploration.                                              *)
(***************************************************************************)
MaxStrLen == 2
MaxItems == 2
MaxCalls == 2

(***************************************************************************)
(* JavaScript values.                                                      *)
(***************************************************************************)
Undef == [t |-> "undef", v |-> 0]
Null == [t |-> "null", v |-> 0]
Str(s) == [t |-> "str", v |-> s]
Num(n) == [t |-> "num", v |-> n]
Bool(b) == [t |-> "bool", v |-> b]
Arr(xs) == [t |-> "arr", v |-> xs]
Obj(es) == [t |-> "obj", v |-> es]
Date(ms) == [t |-> "date", v |-> ms]
Func(name) == [t |-> "func", v |-> name]
Entry(key, val) == [k |-> key, v |-> val]

isString(value) == value.t = "str"
isPlainObject(obj) == obj.t = "obj"
isArray(value) == value.t = "arr"
isPrimitive(value) == value.t \in {"null", "num", "bool"}
isDate(value) == value.t = "date"
isFunction(value) == value.t = "func"

\* ToBoolean: what `!x`, `if (x)` and filter(Boolean) look at.
Truthy(value) ==
  CASE value.t \in {"undef", "null"} -> FALSE
    [] value.t = "str" -> value.v # <<>>
    [] value.t = "num" -> value.v # 0
    [] value.t = "bool" -> value.v
    [] OTHER -> TRUE

(***************************************************************************)
(* Characters.                                                             *)
(***************************************************************************)
UpperSeq == <<"A", "B", "C", "D", "E", "F", "G", "H", "I", "J", "K", "L", "M",
              "N", "O", "P", "Q", "R", "S", "T", "U", "V", "W", "X", "Y", "Z">>
LowerSeq == <<"a", "b", "c", "d", "e", "f", "g", "h", "i", "j", "k", "l", "m",
              "n", "o", "p", "q", "r", "s", "t", "u", "v", "w", "x", "y", "z">>
Letters == {UpperSeq[i] : i \in 1..26} \cup {LowerSeq[i] : i \in 1..26}
Digits == {"0", "1", "2", "3", "4", "5", "6", "7", "8", "9"}
\* White space and line terminators of the model's alphabet (String.prototype.trim, \s).
WhiteSpace == {" ", "\t", "\n", "\r"}

Range(s) == {s[i] : i \in 1..Len(s)}

\* /^[a-zA-Z0-9._%+-]+@[a-zA-Z0-9.-]+\.[a-zA-Z]{2,}$/i
EmailLocal == Letters \cup Digits \cup {".", "_", "%", "+", "-"}
EmailDomain == Letters \cup Digits \cup {".", "-"}
isEmail(s) ==
  \E a \in 2..Len(s) : \E d \in (a + 2)..(Len(s) - 2) :
    /\ s[a] = "@"
    /\ s[d] = "."
    /\ \A i \in 1..(a - 1) : s[i] \in EmailLocal
    /\ \A i \in (a + 1)..(d - 1) : s[i] \in EmailDomain
    /\ \A i \in (d + 1)..Len(s) : s[i] \in Letters

(***************************************************************************)
(* Patterns.  A pattern is a global (/g) regular expression: either a      *)
(* character class or the interpolation pattern of PATTERNS[4].            *)
(***************************************************************************)
ClassPattern(S) == [kind |-> "class", set |-> S]
InjectionPattern == [kind |-> "injection", set |-> {}]

\* Members of [\u0000-\u001F\u007F-\u009F] that have a TLA+ string escape.
ControlChars == {"\t", "\n", "\r"}

PATTERNS == <<
  ClassPattern({"$"}),
  ClassPattern({"."}),
  ClassPattern({"\\", "/", "{", "}", ".", "(", "*", "+", "?", "|", "[", "]", "^", ")"}),
  ClassPattern(ControlChars),
  InjectionPattern >>

\* (.|\r?\n)* can consume s[from..to]: "." takes anything but a line
\* terminator, "\n" is taken alone or after "\r", a lone "\r" blocks.
Consumable(s, from, to) ==
  \A p \in from..to : s[p] = "\r" => (p + 1 <= to /\ s[p + 1] = "\n")

MaxOrZero(S) == IF S = {} THEN 0 ELSE CHOOSE x \in S : \A y \in S : y <= x
MinOrZero(S) == IF S = {} THEN 0 ELSE CHOOSE x \in S : \A y \in S : x <= y
OrElse(x, y) == IF x # 0 THEN x ELSE y

\* Ends of the matches of \{\s*\$ that start at index i.
OperatorEnds(s, i) ==
  {j \in (i + 1)..Len(s) :
     /\ s[i] = "{"
     /\ s[j] = "$"
     /\ \A p \in (i + 1)..(j - 1) : s[p] \in WhiteSpace}

\* Ends of the matches of \{(.|\r?\n)*\} whose brace is at index b.
BraceEnds(s, b) ==
  {e \in (b + 1)..Len(s) :
     /\ s[b] = "{"
     /\ s[e] = "}"
     /\ Consumable(s, b + 1, e - 1)}

\* End (last index) of the match of /\{\s*\$|\$?\{(.|\r?\n)*\}/ that starts
\* at index i, 0 when there is none.  The first alternative is tried first;
\* the star of the second is greedy.
InjectionEnd(s, i) ==
  IF i > Len(s) THEN 0
  ELSE OrElse(MaxOrZero(OperatorEnds(s, i)),
              MaxOrZero(BraceEnds(s, IF s[i] = "$" THEN i + 1 ELSE i)))

\* End of the match of pattern that starts at index i, 0 when there is none.
MatchEnd(pattern, s, i) ==
  IF pattern.kind = "class"
    THEN IF i <= Len(s) /\ s[i] \in pattern.set THEN i ELSE 0
    ELSE InjectionEnd(s, i)

\* RegExp.prototype.exec from the 0-based position lastIndex: the 1-based
\* start of the leftmost match at or after it, 0 when there is none.
FirstMatch(pattern, s, lastIndex) ==
  MinOrZero({i \in (lastIndex + 1)..Len(s) : MatchEnd(pattern, s, i) # 0})

\* The answer of test for a match that starts at i (0: none), and the
\* lastIndex it leaves on the pattern.
TestResult(pattern, s, i) ==
  IF i = 0 THEN [matched |-> FALSE, li |-> 0]
  ELSE [matched |-> TRUE, li |-> MatchEnd(pattern, s, i)]

\* pattern.test(s) of a /g pattern whose lastIndex is li
RegexTest(pattern, s, li) == TestResult(pattern, s, FirstMatch(pattern, s, li))

\* What the one capture group of PATTERNS[4], (.|\r?\n), holds after the
\* match s[i..e]: the text of its last iteration, nothing when the first
\* alternative matched or the star took nothing.  A class has no group.
Groups(pattern) == IF pattern.kind = "injection" THEN 1 ELSE 0
BraceAt(s, i) == IF s[i] = "$" THEN i + 1 ELSE i
Capture(pattern, s, i, e) ==
  IF OperatorEnds(s, i) # {} \/ e = BraceAt(s, i) + 1 THEN <<>>
  ELSE IF s[e - 1] = "\n" /\ e - 2 > BraceAt(s, i) /\ s[e - 2] = "\r" THEN <<"\r", "\n">>
  ELSE <<s[e - 1]>>

\* The replacement text of String.prototype.replace for the match s[i..e]
\* and the replacement string r: $$ is '$', $& the match, $' the text
\* after it, $1 and $01 the capture group when the pattern has one; any
\* other '$' stands for itself.  (The grave accent of the fifth form, the
\* text before the match, is not a character of the strings modelled here.)
RECURSIVE Substitution(_, _, _, _, _)
Substitution(pattern, s, i, e, r) ==
  IF r = <<>> THEN <<>>
  ELSE IF r[1] # "$" \/ Len(r) = 1
    THEN <<r[1]>> \o Substitution(pattern, s, i, e, Tail(r))
  ELSE CASE r[2] = "$" -> <<"$">> \o Substitution(pattern, s, i, e, SubSeq(r, 3, Len(r)))
         [] r[2] = "&" -> SubSeq(s, i, e) \o Substitution(pattern, s, i, e, SubSeq(r, 3, Len(r)))
         [] r[2] = "'" ->
              SubSeq(s, e + 1, Len(s)) \o Substitution(pattern, s, i, e, SubSeq(r, 3, Len(r)))
         [] r[2] = "1" /\ Groups(pattern) = 1 ->
              Capture(pattern, s, i, e) \o Substitution(pattern, s, i, e, SubSeq(r, 3, Len(r)))
         [] r[2] = "0" /\ Len(r) >= 3 /\ r[3] = "1" /\ Groups(pattern) = 1 ->
              Capture(pattern, s, i, e) \o Substitution(pattern, s, i, e, SubSeq(r, 4, Len(r)))
         [] OTHER -> <<"$">> \o Substitution(pattern, s, i, e, Tail(r))

\* s.replace(pattern, replaceWith) of a /g pattern: every match, left to right.
RECURSIVE ReplaceFrom(_, _, _, _)
ReplaceFrom(pattern, s, replaceWith, i) ==
  IF i > Len(s) THEN <<>>
  ELSE IF MatchEnd(pattern, s, i) = 0
    THEN <<s[i]>> \o ReplaceFrom(pattern, s, replaceWith, i + 1)
    ELSE Substitution(pattern, s, i, MatchEnd(pattern, s, i), replaceWith)
           \o ReplaceFrom(pattern, s, replaceWith, MatchEnd(pattern, s, i) + 1)

\* The first match only, as a pattern without the g flag would do.
CutMatch(pattern, s, replaceWith, i) ==
  IF i = 0 THEN s
  ELSE SubSeq(s, 1, i - 1) \o replaceWith \o SubSeq(s, MatchEnd(pattern, s, i) + 1, Len(s))
ReplaceFirst(pattern, s, replaceWith) ==
  CutMatch(pattern, s, replaceWith, FirstMatch(pattern, s, 0))

Replace(pattern, s, replaceWith) == ReplaceFrom(pattern, s, replaceWith, 1)

\* patterns.reduce((acc, pattern) => acc.replace(pattern, replaceWith), str)
RECURSIVE ReducePatterns(_, _, _, _)
ReducePatterns(patterns, replaceWith, acc, n) ==
  IF n > Len(patterns) THEN acc
  ELSE ReducePatterns(patterns, replaceWith, Replace(patterns[n], acc, replaceWith), n + 1)

RECURSIVE TrimStart(_)
TrimStart(s) == IF s # <<>> /\ Head(s) \in WhiteSpace THEN TrimStart(Tail(s)) ELSE s
RECURSIVE TrimEnd(_)
TrimEnd(s) ==
  IF s # <<>> /\ s[Len(s)] \in WhiteSpace THEN TrimEnd(SubSeq(s, 1, Len(s) - 1)) ELSE s
Trim(s) == TrimEnd(TrimStart(s))

ToLowerChar(c) ==
  IF \E i \in 1..26 : UpperSeq[i] = c
    THEN LowerSeq[CHOOSE i \in 1..26 : UpperSeq[i] = c]
    ELSE c
RECURSIVE ToLowerCase(_)
ToLowerCase(s) ==
  IF s = <<>> THEN <<>> ELSE <<ToLowerChar(Head(s))>> \o ToLowerCase(Tail(s))

\* str.slice(0, n) for n > 0
Slice(s, n) == SubSeq(s, 1, IF n < Len(s) THEN n ELSE Len(s))

(***************************************************************************)
(* Options.  Of the debug sub-object, which drives logging, only the       *)
(* enabled flag is kept.                                                   *)
(***************************************************************************)
sEnabled == <<"e", "n", "a", "b", "l", "e", "d">>
DEFAULT_OPTIONS == [
  replaceWith |-> Str(<<>>),
  removeMatches |-> Bool(FALSE),
  sanitizeObjects |-> <<"body", "params", "query">>,
  mode |-> "auto",
  skipRoutes |-> Arr(<<>>),
  customSanitizer |-> Null,
  recursive |-> Bool(TRUE),
  removeEmpty |-> Bool(FALSE),
  patterns |-> Arr(PATTERNS),
  allowedKeys |-> Null,
  deniedKeys |-> Null,
  stringOptions |-> [trim |-> FALSE, lowercase |-> FALSE, maxLength |-> 0],
  arrayOptions |-> [filterNull |-> FALSE, distinct |-> FALSE],
  debug |-> Obj(<<Entry(sEnabled, Bool(FALSE))>>) ]

\* { ...base, ...over }
Merge(base, over) ==
  [f \in DOMAIN base |-> IF f \in DOMAIN over THEN over[f] ELSE base[f]]

Zeros(n) == [i \in 1..n |-> 0]

\* array.includes(key) for an array of strings
Includes(array, key) == \E i \in 1..Len(array.v) : array.v[i] = Str(key)

(***************************************************************************)
(* Errors: what a throw carries.  NoError stands for a normal return.      *)
(***************************************************************************)
\* A message is the sequence of its parts.
NoError == [name |-> "none", type |-> "none", message |-> <<>>]
\* new FastifyMongoSanitizeError(message, type)
FastifyMongoSanitizeError(message, type) ==
  [name |-> "FastifyMongoSanitizeError", type |-> type, message |-> message]
\* The TypeError of reading a property of null or undefined.
TypeError(message) == [name |-> "TypeError", type |-> "none", message |-> message]
\* An error thrown by a function of the host.
HostError(message) == [name |-> "Error", type |-> "none", message |-> message]

(***************************************************************************)
(* Validation of the merged options.  sanitizeObjects, stringOptions and   *)
(* arrayOptions are a sequence and records of the model and always have    *)
(* the shape their validators (isArray, isPlainObject) ask for.            *)
(***************************************************************************)
\* Object.entries(validators), in order
ValidatedKeys ==
  << "replaceWith", "removeMatches", "sanitizeObjects", "mode", "skipRoutes",
     "customSanitizer", "recursive", "removeEmpty", "patterns", "allowedKeys",
     "deniedKeys", "stringOptions", "arrayOptions", "debug" >>
\* validators[key](value)
Validate(key, value) ==
  CASE key = "replaceWith" -> isString(value)
    [] key \in {"removeMatches", "recursive", "removeEmpty"} -> isPrimitive(value)
    [] key = "mode" -> value \in {"auto", "manual"}
    [] key \in {"skipRoutes", "patterns"} -> isArray(value)
    [] key = "customSanitizer" -> value.t = "null" \/ isFunction(value)
    [] key \in {"allowedKeys", "deniedKeys"} -> value.t = "null" \/ isArray(value)
    [] key = "debug" -> isPlainObject(value)
    [] OTHER -> TRUE
InvalidKeys(options) ==
  {i \in 1..Len(ValidatedKeys) : ~Validate(ValidatedKeys[i], options[ValidatedKeys[i]])}
\* The first key whose validator fails decides the error.
validateOptions(options) ==
  IF InvalidKeys(options) = {} THEN NoError
  ELSE FastifyMongoSanitizeError(
         <<"Invalid configuration: ", ValidatedKeys[MinOrZero(InvalidKeys(options))]>>,
         "type_error")

(***************************************************************************)
(* Functions a host may pass as customSanitizer:                           *)
(*   identity   (data) => data                                             *)
(*   arguments  function () { return { args: arguments.length } }          *)
(*   strict     (data) => { if ('id' in data) throw new Error('id');       *)
(*                          return <data without its entries whose key     *)
(*                                  starts with '$'> }                     *)
(***************************************************************************)
sArgs == <<"a", "r", "g", "s">>
sId == <<"i", "d">>
fnIdentity == Func("identity")
fnArguments == Func("arguments")
fnStrict == Func("strict")
RECURSIVE WithoutOperatorKeys(_)
WithoutOperatorKeys(entries) ==
  IF entries = <<>> THEN <<>>
  ELSE (IF Head(entries).k # <<>> /\ Head(entries).k[1] = "$" THEN <<>> ELSE <<Head(entries)>>)
         \o WithoutOperatorKeys(Tail(entries))
\* fn(...args): the value returned, or the error thrown
CallFunction(fn, args) ==
  CASE fn.v = "identity" -> [val |-> args[1], err |-> NoError]
    [] fn.v = "arguments" ->
         [val |-> Obj(<<Entry(sArgs, Num(Len(args)))>>), err |-> NoError]
    [] fn.v = "strict" ->
         IF \E i \in 1..Len(args[1].v) : args[1].v[i].k = sId
           THEN [val |-> Undef, err |-> HostError(<<"id">>)]
           ELSE [val |-> Obj(WithoutOperatorKeys(args[1].v)), err |-> NoError]

(***************************************************************************)
(* The engine.  Every operation takes the lastIndex values of the /g       *)
(* patterns and returns, with its result, the values it leaves.            *)
(***************************************************************************)
ApplyPatterns(patterns, replaceWith, str) ==
  ReducePatterns(patterns, replaceWith, str, 1)

\* String shaping of sanitizeString: trim, lowercase, maxLength (values only).
Normalize(s, stringOptions, isValue) ==
  LET t == IF stringOptions.trim THEN Trim(s) ELSE s
      l == IF stringOptions.lowercase THEN ToLowerCase(t) ELSE t
  IN  IF stringOptions.maxLength # 0 /\ isValue THEN Slice(l, stringOptions.maxLength) ELSE l

sanitizeString(str, options, isValue, li) ==
  IF ~isString(str) \/ isEmail(str.v)
    THEN [val |-> str, li |-> li]
    ELSE [val |-> Str(Normalize(ApplyPatterns(options.patterns.v, options.replaceWith.v, str.v),
                                options.stringOptions, isValue)),
          li |-> Zeros(Len(options.patterns.v))]

\* patterns.some((pattern) => pattern.test(s)), from pattern n on
RECURSIVE TestSome(_, _, _, _)
TestNext(patterns, s, li, n, r) ==
  IF r.matched THEN [matched |-> TRUE, li |-> [li EXCEPT ![n] = r.li]]
  ELSE TestSome(patterns, s, [li EXCEPT ![n] = r.li], n + 1)
TestSome(patterns, s, li, n) ==
  IF n > Len(patterns) THEN [matched |-> FALSE, li |-> li]
  ELSE TestNext(patterns, s, li, n, RegexTest(patterns[n], s, li[n]))

\* Keys that are canonical array indices come first in an object, in
\* ascending order; the other keys follow in insertion order.
IsIndexKey(key) ==
  /\ key # <<>>
  /\ \A i \in 1..Len(key) : key[i] \in Digits
  /\ (Len(key) > 1 => key[1] # "0")
DigitSeq == <<"0", "1", "2", "3", "4", "5", "6", "7", "8", "9">>
DigitVal(c) == (CHOOSE i \in 1..10 : DigitSeq[i] = c) - 1
RECURSIVE IndexVal(_)
IndexVal(key) ==
  IF key = <<>> THEN 0
  ELSE 10 * IndexVal(SubSeq(key, 1, Len(key) - 1)) + DigitVal(key[Len(key)])
RECURSIVE IndexKey(_)
IndexKey(n) ==
  IF n < 10 THEN <<DigitSeq[n + 1]>> ELSE IndexKey(n \div 10) \o <<DigitSeq[(n % 10) + 1]>>

\* An assignment that leaves a key that is already there as it is.
ObjectSetOnce(acc, key, val) ==
  IF \E i \in 1..Len(acc) : acc[i].k = key THEN acc ELSE Append(acc, Entry(key, val))

\* acc[key] = val
ObjectSet(acc, key, val) ==
  IF \E i \in 1..Len(acc) : acc[i].k = key
    THEN [i \in 1..Len(acc) |-> IF acc[i].k = key THEN Entry(key, val) ELSE acc[i]]
  ELSE IF IsIndexKey(key)
    THEN LET before == {i \in 1..Len(acc) :
                          IsIndexKey(acc[i].k) /\ IndexVal(acc[i].k) < IndexVal(key)}
             n == Cardinality(before)
         IN  SubSeq(acc, 1, n) \o <<Entry(key, val)>> \o SubSeq(acc, n + 1, Len(acc))
  ELSE Append(acc, Entry(key, val))

\* A filter that removes null and undefined only.
FilterNullish(xs) == SelectSeq(xs, LAMBDA x : x.t \notin {"null", "undef"})

\* result.filter(Boolean)
RECURSIVE FilterBoolean(_)
FilterBoolean(xs) ==
  IF xs = <<>> THEN <<>>
  ELSE (IF Truthy(Head(xs)) THEN <<Head(xs)>> ELSE <<>>) \o FilterBoolean(Tail(xs))

\* [...new Set(result)]: SameValueZero keeps the first of equal primitives;
\* objects and arrays are compared by reference and every one is distinct.
ByValue(x) == x.t \in {"undef", "null", "str", "num", "bool"}
RECURSIVE Distinct(_)
Distinct(xs) ==
  IF xs = <<>> THEN <<>>
  ELSE LET init == SubSeq(xs, 1, Len(xs) - 1)
           last == xs[Len(xs)]
       IN  IF ByValue(last) /\ \E i \in 1..Len(init) : init[i] = last
             THEN Distinct(init)
             ELSE Append(Distinct(init), last)

RECURSIVE sanitizeValue(_, _, _, _)
RECURSIVE MapItems(_, _, _, _, _)
RECURSIVE ReduceEntries(_, _, _, _, _)

\* arr.map(item => ...) from item n on; acc holds the mapped items so far,
\* r is the result for item n.
MapStep(arr, options, acc, n, r) ==
  MapItems(arr, options, r.li, Append(acc, r.val), n + 1)
MapItems(arr, options, li, acc, n) ==
  IF n > Len(arr) THEN [val |-> acc, li |-> li]
  ELSE MapStep(arr, options, acc, n,
         IF ~Truthy(options.recursive) /\ (isPlainObject(arr[n]) \/ isArray(arr[n]))
           THEN [val |-> arr[n], li |-> li]
           ELSE sanitizeValue(arr[n], options, FALSE, li))

FilterNullIf(xs, on) == IF on THEN FilterBoolean(xs) ELSE xs
DistinctIf(xs, on) == IF on THEN Distinct(xs) ELSE xs
\* filterNull, then distinct, on the mapped items
PostProcess(mapped, arrayOptions) ==
  [val |-> Arr(DistinctIf(FilterNullIf(mapped.val, arrayOptions.filterNull),
                          arrayOptions.distinct)),
   li |-> mapped.li]

\* The type guard of sanitizeArray and of sanitizeObject throws; the value
\* thrown is kept as the result.  sanitizeValue, the only caller, tests the
\* type first, so that the loops below never meet such a result.
Throw(error, li) == [val |-> [t |-> "throw", v |-> error], li |-> li]

sanitizeArray(arr, options, li) ==
  IF ~isArray(arr)
    THEN Throw(FastifyMongoSanitizeError(<<"Input must be an array">>, "type_error"), li)
    ELSE PostProcess(MapItems(arr.v, options, li, <<>>, 1), options.arrayOptions)

\* The callback of Object.entries(obj).reduce for one entry, in the order
\* of its statements: the last lines first.
\* if (removeEmpty && !sanitizedValue) return acc; acc[sanitizedKey] = sanitizedValue
EntryStore(acc, options, sanitizedKey, sv) ==
  IF Truthy(options.removeEmpty) /\ ~Truthy(sv.val)
    THEN [val |-> acc, li |-> sv.li]
    ELSE [val |-> ObjectSet(acc, sanitizedKey, sv.val), li |-> sv.li]

\* The value matched (removeMatches): drop; else sanitize the value, or
\* keep a nested value as it is when recursive is off.
EntryAfterValueTest(acc, value, options, sanitizedKey, valueTest) ==
  IF valueTest.matched THEN [val |-> acc, li |-> valueTest.li]
  ELSE EntryStore(acc, options, sanitizedKey,
         IF ~Truthy(options.recursive) /\ (isPlainObject(value) \/ isArray(value))
           THEN [val |-> value, li |-> valueTest.li]
           ELSE sanitizeValue(value, options, TRUE, valueTest.li))

\* The key matched (removeMatches): drop; the sanitized key is empty
\* (removeEmpty): drop; else test a string value (removeMatches).
EntryAfterKeyTest(acc, key, value, options, sanitizedKey, keyTest) ==
  IF keyTest.matched THEN [val |-> acc, li |-> keyTest.li]
  ELSE IF Truthy(options.removeEmpty) /\ sanitizedKey = <<>>
    THEN [val |-> acc, li |-> keyTest.li]
  ELSE EntryAfterValueTest(acc, value, options, sanitizedKey,
         IF Truthy(options.removeMatches) /\ isString(value)
           THEN TestSome(options.patterns.v, value.v, keyTest.li, 1)
           ELSE [matched |-> FALSE, li |-> keyTest.li])

\* An email value is stored as it is under the sanitized key; else the
\* key is tested (removeMatches).
EntryWithKey(acc, key, value, options, sk) ==
  IF isString(value) /\ isEmail(value.v)
    THEN [val |-> ObjectSet(acc, sk.val.v, value), li |-> sk.li]
  ELSE EntryAfterKeyTest(acc, key, value, options, sk.val.v,
         IF Truthy(options.removeMatches)
           THEN TestSome(options.patterns.v, key, sk.li, 1)
           ELSE [matched |-> FALSE, li |-> sk.li])

\* The key filter that keeps every key.
KeptAlways(options, key) == TRUE
\* The key filter that forgets the deny list.
KeptIgnoringDenied(options, key) ==
  ~(isArray(options.allowedKeys) /\ Len(options.allowedKeys.v) # 0
      /\ ~Includes(options.allowedKeys, key))

\* allowedKeys / deniedKeys: the entry of this key is processed at all
Kept(options, key) ==
  /\ ~(isArray(options.allowedKeys) /\ Len(options.allowedKeys.v) # 0
         /\ ~Includes(options.allowedKeys, key))
  /\ ~(isArray(options.deniedKeys) /\ Len(options.deniedKeys.v) # 0
         /\ Includes(options.deniedKeys, key))

ReduceEntry(acc, key, value, options, li) ==
  IF ~Kept(options, key) THEN [val |-> acc, li |-> li]
  ELSE EntryWithKey(acc, key, value, options, sanitizeString(Str(key), options, FALSE, li))

ReduceStep(entries, options, n, r) ==
  ReduceEntries(entries, options, r.li, r.val, n + 1)
ReduceEntries(entries, options, li, acc, n) ==
  IF n > Len(entries) THEN [val |-> acc, li |-> li]
  ELSE ReduceStep(entries, options, n,
                  ReduceEntry(acc, entries[n].k, entries[n].v, options, li))

AsObject(r) == [val |-> Obj(r.val), li |-> r.li]
sanitizeObject(obj, options, li) ==
  IF ~isPlainObject(obj)
    THEN Throw(FastifyMongoSanitizeError(<<"Input must be an object">>, "type_error"), li)
    ELSE AsObject(ReduceEntries(obj.v, options, li, <<>>, 1))

\* A dispatcher without the last line: what is no string and no array is
\* taken for an object.
sanitizeValueNoFallThrough(value, options, isValue, li) ==
  IF value.t \in {"undef", "null"} \/ isPrimitive(value)
    THEN [val |-> value, li |-> li]
  ELSE IF isString(value) THEN sanitizeString(value, options, isValue, li)
  ELSE IF isArray(value) THEN sanitizeArray(value, options, li)
  ELSE sanitizeObject(value, options, li)

sanitizeValue(value, options, isValue, li) ==
  IF value.t \in {"undef", "null"} \/ isPrimitive(value) \/ isDate(value)
    THEN [val |-> value, li |-> li]
  ELSE IF isString(value) THEN sanitizeString(value, options, isValue, li)
  ELSE IF isArray(value) THEN sanitizeArray(value, options, li)
  ELSE IF isPlainObject(value) THEN sanitizeObject(value, options, li)
  ELSE [val |-> value, li |-> li]

\* A copy that leaves an array an array.
ObjectAssignKeepingArrays(source) ==
  CASE isPlainObject(source) -> Obj(source.v)
    [] isArray(source) -> source
    [] isString(source) ->
         Obj([i \in 1..Len(source.v) |-> Entry(IndexKey(i - 1), Str(<<source.v[i]>>))])
    [] OTHER -> Obj(<<>>)

\* Object.assign({}, source): the own enumerable properties of source.
ObjectAssign(source) ==
  CASE isPlainObject(source) -> Obj(source.v)
    [] isArray(source) ->
         Obj([i \in 1..Len(source.v) |-> Entry(IndexKey(i - 1), source.v[i])])
    [] isString(source) ->
         Obj([i \in 1..Len(source.v) |-> Entry(IndexKey(i - 1), Str(<<source.v[i]>>))])
    [] OTHER -> Obj(<<>>)

\* The loop of handleRequest over sanitizeObjects, from field n on; r is
\* the result for field n.  A throw leaves the loop: the field is not
\* assigned and the error goes to the caller.
Returned(r) ==
  [val |-> r.val, li |-> r.li, err |-> IF r.val.t = "throw" THEN r.val.v ELSE NoError]
Called(r, li) == [val |-> r.val, li |-> li, err |-> r.err]

\* The custom sanitizer's value, sanitized by the engine as well.
FieldValueThenEngine(original, options, li) ==
  IF Truthy(options.customSanitizer)
    THEN Returned(sanitizeValue(CallFunction(options.customSanitizer, <<original>>).val,
                                options, FALSE, li))
    ELSE Returned(sanitizeValue(original, options, FALSE, li))

\* customSanitizer ? customSanitizer(originalRequest)
\*                 : sanitizeValue(originalRequest, options)
FieldValue(original, options, li) ==
  IF Truthy(options.customSanitizer)
    THEN Called(CallFunction(options.customSanitizer, <<original>>), li)
    ELSE Returned(sanitizeValue(original, options, FALSE, li))

RECURSIVE HandleFields(_, _, _, _)
\* A loop that catches the error of a field and goes on with the next.
FieldDoneCatching(request, options, n, r) ==
  IF r.err # NoError THEN HandleFields(request, options, r.li, n + 1)
  ELSE HandleFields([request EXCEPT ![options.sanitizeObjects[n]] = r.val],
                    options, r.li, n + 1)

FieldDone(request, options, n, r) ==
  IF r.err # NoError THEN [val |-> request, li |-> r.li, err |-> r.err]
  ELSE HandleFields([request EXCEPT ![options.sanitizeObjects[n]] = r.val],
                    options, r.li, n + 1)
HandleFields(request, options, li, n) ==
  IF n > Len(options.sanitizeObjects) THEN [val |-> request, li |-> li, err |-> NoError]
  ELSE IF options.sanitizeObjects[n] \in DOMAIN request
            /\ Truthy(request[options.sanitizeObjects[n]])
    THEN FieldDone(request, options, n,
           FieldValue(ObjectAssign(request[options.sanitizeObjects[n]]), options, li))
    ELSE HandleFields(request, options, li, n + 1)

handleRequest(request, options, li) == HandleFields(request, options, li, 1)

(***************************************************************************)
(* The engine on the heap.  Objects and arrays are cells of a heap and are *)
(* held by reference: a word is a value that is no object and no array,    *)
(* or the reference Ref(a) of cell a.  The operations are those above,     *)
(* statement by statement, with their reads and writes of cells: what is   *)
(* a new object or array in the code is a new cell, and acc[key] = value   *)
(* is a write to the cell acc refers to.  A result is [w, h, li]: the      *)
(* word returned, the cells and the lastIndex values left.                 *)
(***************************************************************************)
Ref(a) == [t |-> "ref", v |-> a]
isRef(w) == w.t = "ref"
isArrayAt(w, h) == isRef(w) /\ h[w.v].t = "arr"
isPlainObjectAt(w, h) == isRef(w) /\ h[w.v].t = "obj"

\* a new object or array
Alloc(cell, h) == [w |-> Ref(Len(h) + 1), h |-> Append(h, cell)]
\* acc[key] = val
HeapSet(h, acc, key, val) == [h EXCEPT ![acc.v] = Obj(ObjectSet(h[acc.v].v, key, val))]

\* The value x as the request parser leaves it on the heap: every object
\* and array in a cell of its own.
RECURSIVE Load(_, _)
RECURSIVE LoadItems(_, _, _, _)
LoadItemsStep(xs, acc, n, r) == LoadItems(xs, r.h, Append(acc, r.w), n + 1)
LoadItems(xs, h, acc, n) ==
  IF n > Len(xs) THEN [w |-> acc, h |-> h]
  ELSE LoadItemsStep(xs, acc, n, Load(xs[n], h))
LoadArray(items) == Alloc(Arr(items.w), items.h)
LoadObject(obj, vals) ==
  Alloc(Obj([i \in 1..Len(obj.v) |-> Entry(obj.v[i].k, vals.w[i])]), vals.h)
Load(x, h) ==
  CASE isArray(x) -> LoadArray(LoadItems(x.v, h, <<>>, 1))
    [] isPlainObject(x) ->
         LoadObject(x, LoadItems([i \in 1..Len(x.v) |-> x.v[i].v], h, <<>>, 1))
    [] OTHER -> [w |-> x, h |-> h]

\* The value a word stands for.
RECURSIVE ReadBack(_, _)
ReadBack(w, h) ==
  IF isArrayAt(w, h)
    THEN Arr([i \in 1..Len(h[w.v].v) |-> ReadBack(h[w.v].v[i], h)])
  ELSE IF isPlainObjectAt(w, h)
    THEN Obj([i \in 1..Len(h[w.v].v) |->
                Entry(h[w.v].v[i].k, ReadBack(h[w.v].v[i].v, h))])
  ELSE w

RECURSIVE sanitizeValueAt(_, _, _, _, _)
RECURSIVE MapItemsAt(_, _, _, _, _, _)
RECURSIVE ReduceEntriesAt(_, _, _, _, _, _)

Unchanged(w, h, li) == [w |-> w, h |-> h, li |-> li]
StringAt(r, h) == [w |-> r.val, h |-> h, li |-> r.li]

\* arr.map(...): the items are collected for the new array
MapStepAt(items, options, acc, n, r) ==
  MapItemsAt(items, options, r.h, r.li, Append(acc, r.w), n + 1)
MapItemsAt(items, options, h, li, acc, n) ==
  IF n > Len(items) THEN [w |-> acc, h |-> h, li |-> li]
  ELSE MapStepAt(items, options, acc, n,
         IF ~Truthy(options.recursive) /\ isRef(items[n])
           THEN Unchanged(items[n], h, li)
           ELSE sanitizeValueAt(items[n], options, FALSE, h, li))

\* map, filter and [...new Set()] build new arrays: the last one is the
\* result, the others are not referred to any more.
NewArray(a, li) == [w |-> a.w, h |-> a.h, li |-> li]
PostProcessAt(mapped, arrayOptions) ==
  NewArray(Alloc(Arr(DistinctIf(FilterNullIf(mapped.w, arrayOptions.filterNull),
                                arrayOptions.distinct)), mapped.h),
           mapped.li)

sanitizeArrayAt(arr, options, h, li) ==
  PostProcessAt(MapItemsAt(h[arr.v].v, options, h, li, <<>>, 1), options.arrayOptions)

\* The callback of reduce; acc is the reference of the accumulator.
EntryStoreAt(acc, options, sanitizedKey, sv) ==
  IF Truthy(options.removeEmpty) /\ ~Truthy(sv.w)
    THEN Unchanged(acc, sv.h, sv.li)
    ELSE Unchanged(acc, HeapSet(sv.h, acc, sanitizedKey, sv.w), sv.li)

EntryAfterValueTestAt(acc, value, options, sanitizedKey, valueTest, h) ==
  IF valueTest.matched THEN Unchanged(acc, h, valueTest.li)
  ELSE EntryStoreAt(acc, options, sanitizedKey,
         IF ~Truthy(options.recursive) /\ isRef(value)
           THEN Unchanged(value, h, valueTest.li)
           ELSE sanitizeValueAt(value, options, TRUE, h, valueTest.li))

EntryAfterKeyTestAt(acc, key, value, options, sanitizedKey, keyTest, h) ==
  IF keyTest.matched THEN Unchanged(acc, h, keyTest.li)
  ELSE IF Truthy(options.removeEmpty) /\ sanitizedKey = <<>>
    THEN Unchanged(acc, h, keyTest.li)
  ELSE EntryAfterValueTestAt(acc, value, options, sanitizedKey,
         IF Truthy(options.removeMatches) /\ isString(value)
           THEN TestSome(options.patterns.v, value.v, keyTest.li, 1)
           ELSE [matched |-> FALSE, li |-> keyTest.li],
         h)

EntryWithKeyAt(acc, key, value, options, sk, h) ==
  IF isString(value) /\ isEmail(value.v)
    THEN Unchanged(acc, HeapSet(h, acc, sk.val.v, value), sk.li)
  ELSE EntryAfterKeyTestAt(acc, key, value, options, sk.val.v,
         IF Truthy(options.removeMatches)
           THEN TestSome(options.patterns.v, key, sk.li, 1)
           ELSE [matched |-> FALSE, li |-> sk.li],
         h)

ReduceEntryAt(acc, key, value, options, h, li) ==
  IF ~Kept(options, key) THEN Unchanged(acc, h, li)
  ELSE EntryWithKeyAt(acc, key, value, options,
                      sanitizeString(Str(key), options, FALSE, li), h)

ReduceStepAt(entries, options, n, r) ==
  ReduceEntriesAt(entries, options, r.w, r.h, r.li, n + 1)
ReduceEntriesAt(entries, options, acc, h, li, n) ==
  IF n > Len(entries) THEN Unchanged(acc, h, li)
  ELSE ReduceStepAt(entries, options, n,
                    ReduceEntryAt(acc, entries[n].k, entries[n].v, options, h, li))

\* A reduce that accumulates into the object it reads.
ReduceIntoInput(obj, h) == [w |-> obj, h |-> h]

\* The initial value of the reduce: the {} of its last line.
ReduceInto(obj, h) == Alloc(Obj(<<>>), h)

\* Object.entries(obj) is taken before the reduce starts.
ReduceFrom(entries, options, li, start) ==
  ReduceEntriesAt(entries, options, start.w, start.h, li, 1)
sanitizeObjectAt(obj, options, h, li) ==
  ReduceFrom(h[obj.v].v, options, li, ReduceInto(obj, h))

sanitizeValueAt(value, options, isValue, h, li) ==
  IF value.t \in {"undef", "null"} \/ isPrimitive(value) \/ isDate(value)
    THEN Unchanged(value, h, li)
  ELSE IF isString(value) THEN StringAt(sanitizeString(value, options, isValue, li), h)
  ELSE IF isArrayAt(value, h) THEN sanitizeArrayAt(value, options, h, li)
  ELSE IF isPlainObjectAt(value, h) THEN sanitizeObjectAt(value, options, h, li)
  ELSE Unchanged(value, h, li)

\* Object.assign({}, source): a new object with the own enumerable
\* properties of source; nested objects and arrays are shared with source.
ObjectAssignAt(source, h) ==
  CASE isPlainObjectAt(source, h) -> Alloc(Obj(h[source.v].v), h)
    [] isArrayAt(source, h) ->
         Alloc(Obj([i \in 1..Len(h[source.v].v) |->
                      Entry(IndexKey(i - 1), h[source.v].v[i])]), h)
    [] OTHER -> Load(ObjectAssign(source), h)

\* The heap of a request: its cells, the words the target fields held when
\* the request arrived and the words they hold now.
NoWords == [body |-> Undef, params |-> Undef, query |-> Undef]
EmptyHeap == [cells |-> <<>>, original |-> NoWords, current |-> NoWords]
FieldWords(ws) == [body |-> ws[1], params |-> ws[2], query |-> ws[3]]
Arrived(l) == [cells |-> l.h, original |-> FieldWords(l.w), current |-> FieldWords(l.w)]
LoadRequest(r) == Arrived(LoadItems(<<r.body, r.params, r.query>>, <<>>, <<>>, 1))

\* The value of a field: the custom sanitizer gets the copy and its result
\* is a new value (the functions of the model write to no object they are
\* given); else the copy goes through sanitizeValue.
WithError(r, li, err) == [w |-> r.w, h |-> r.h, li |-> li, err |-> err]
CalledAt(r, copy, li) ==
  IF r.err # NoError THEN WithError(copy, li, r.err)
  ELSE WithError(Load(r.val, copy.h), li, NoError)
ReturnedAt(r) == WithError(r, r.li, NoError)
FieldValueAt(copy, options, li) ==
  IF Truthy(options.customSanitizer)
    THEN CalledAt(CallFunction(options.customSanitizer, <<ReadBack(copy.w, copy.h)>>), copy, li)
    ELSE ReturnedAt(sanitizeValueAt(copy.w, options, FALSE, copy.h, li))

\* The loop of handleRequest: request[field] = ... changes the word the
\* field holds, and what the field held before is referred to no more by
\* the request.
RECURSIVE HandleFieldsAt(_, _, _, _)
FieldDoneAt(hp, options, n, r) ==
  IF r.err # NoError THEN [hp EXCEPT !.cells = r.h]
  ELSE HandleFieldsAt([hp EXCEPT !.cells = r.h,
                                   !.current[options.sanitizeObjects[n]] = r.w],
                      options, r.li, n + 1)
HandleFieldsAt(hp, options, li, n) ==
  IF n > Len(options.sanitizeObjects) THEN hp
  ELSE IF options.sanitizeObjects[n] \in DOMAIN hp.current
            /\ Truthy(hp.current[options.sanitizeObjects[n]])
    THEN FieldDoneAt(hp, options, n,
           FieldValueAt(ObjectAssignAt(hp.current[options.sanitizeObjects[n]], hp.cells),
                        options, li))
    ELSE HandleFieldsAt(hp, options, li, n + 1)

handleRequestAt(hp, options, li) == HandleFieldsAt(hp, options, li, 1)

(***************************************************************************)
(* Route normalisation.                                                    *)
(***************************************************************************)
\* url.split(/[?#]/)[0]
RECURSIVE SplitPath(_)
SplitPath(url) ==
  IF url = <<>> \/ Head(url) \in {"?", "#"} THEN <<>>
  ELSE <<Head(url)>> \o SplitPath(Tail(url))

RECURSIVE StripLeading(_)
StripLeading(s) == IF s # <<>> /\ Head(s) = "/" THEN StripLeading(Tail(s)) ELSE s
RECURSIVE StripTrailing(_)
StripTrailing(s) ==
  IF s # <<>> /\ s[Len(s)] = "/" THEN StripTrailing(SubSeq(s, 1, Len(s) - 1)) ELSE s

\* A normaliser that strips the leading separators only.
cleanUrlLeadingOnly(url) ==
  IF ~isString(url) \/ url.v = <<>> THEN Null
  ELSE LET trimmed == StripLeading(SplitPath(url.v))
       IN  IF trimmed # <<>> THEN Str(<<"/">> \o trimmed) ELSE Null

cleanUrl(url) ==
  IF ~isString(url) \/ url.v = <<>> THEN Null
  ELSE LET path == SplitPath(url.v)
           trimmed == StripTrailing(StripLeading(path))
       IN  IF trimmed # <<>> THEN Str(<<"/">> \o trimmed) ELSE Null

(***************************************************************************)
(* Inputs.  Strings: every string of at most MaxStrLen characters of       *)
(* Chars, and some longer ones (addresses, interpolations).  Request       *)
(* bodies: one-entry objects over all the strings, as value and as key,    *)
(* and nested objects and arrays of at most MaxItems items over atoms.     *)
(***************************************************************************)
Chars == {"$", ".", "a", "B", " ", "{"}
BoundedSeqs(S, n) == UNION {[1..k -> S] : k \in 0..n}

sEmail == <<"a", "@", "b", ".", "c", "o">>
sEmailKey == <<"x", "@", "y", ".", "z", "z">>
sNotEmail == <<"a", "@", "b", ".", "c">>
sInterp == <<"$", "{", "a", "}">>
sBraceOp == <<"{", " ", "$", "a">>
sPath == <<"$", "a", ".", "b">>
ExtraStrings == {sEmail, sNotEmail, sInterp, sBraceOp, sPath}
Strings == BoundedSeqs(Chars, MaxStrLen) \cup ExtraStrings

sK == <<"k">>
sA == <<"a">>
sOpA == <<"$", "a">>
sB == <<"b">>
sAB == <<"a", "b">>
KeyAtoms == {sA, sOpA, sB}
ValAtoms == {Str(sOpA), Str(sA), Str(sAB), Str(sEmail), Num(0), Null}

AtomArrays == {Arr(xs) : xs \in BoundedSeqs(ValAtoms, MaxItems)}
InnerObjects == {Obj(<<Entry(key, val)>>) : key \in KeyAtoms, val \in ValAtoms}
Nested == AtomArrays \cup InnerObjects \cup {Arr(<<o>>) : o \in InnerObjects}
            \cup {Obj(<<Entry(sOpA, Arr(<<Str(sOpA), o>>))>>) : o \in InnerObjects}

\* Arrays with repeated, falsy and nested items.
sOpAB == <<"$", "a", "b">>
ArrayExamples ==
  {Arr(<<Str(sOpA), Str(sOpA), Null, Str(sOpAB), Null>>),
   Arr(<<Num(1), Num(1), Num(2), Null>>),
   Arr(<<Str(<<"$">>), Num(0), Bool(FALSE), Undef, Str(sA)>>),
   Arr(<<Arr(<<Str(sOpA)>>), Arr(<<Str(sA)>>), Str(sA), Str(sOpA)>>),
   Arr(<<Obj(<<Entry(sOpA, Null)>>), Obj(<<Entry(sA, Null)>>), Arr(<<Null, Num(1), Num(1)>>)>>)}

\* Values that are no string, array or plain object.
fnHost == Func("host")
OtherValues ==
  {Date(0), fnHost, Bool(TRUE), Undef,
   Arr(<<Date(0), fnHost, Undef, Bool(FALSE)>>),
   Obj(<<Entry(sOpA, Date(0)), Entry(sB, fnHost)>>)}

KeyPairs == {ks \in KeyAtoms \X KeyAtoms : ks[1] # ks[2]}
Bodies ==
  {Obj(<<Entry(sK, Str(s))>>) : s \in Strings}
    \cup {Obj(<<Entry(s, Num(1))>>) : s \in Strings}
    \cup {Obj(<<Entry(sEmailKey, val)>>) : val \in ValAtoms}
    \cup {Obj(<<Entry(ks[1], v1), Entry(ks[2], v2)>>) :
            ks \in KeyPairs, v1 \in ValAtoms, v2 \in ValAtoms}
    \cup {Obj(<<Entry(key, val)>>) : key \in KeyAtoms, val \in Nested}
    \cup {Obj(<<Entry(sK, val)>>) : val \in ArrayExamples}
    \cup {Obj(<<Entry(<<"$">>, val)>>) : val \in ValAtoms}
    \cup {Obj(<<Entry(sK, val)>>) : val \in OtherValues}
    \cup {Arr(<<Str(sOpA), Str(sOpA), Null>>), Undef}

uTest == <<"/", "t">>
uHealth == <<"/", "h", "e", "a", "l", "t", "h">>
uHealthSlash == <<"/", "h", "e", "a", "l", "t", "h", "/">>
uHealthSlashes == <<"/", "/", "/", "h", "e", "a", "l", "t", "h", "/", "/">>
uHealthQuery == <<"/", "h", "e", "a", "l", "t", "h", "?", "x", "=", "1">>
uHealthFragment == <<"/", "h", "e", "a", "l", "t", "h", "#", "t", "o", "p">>
uHealthcheck == <<"/", "h", "e", "a", "l", "t", "h", "c", "h", "e", "c", "k">>
uHealthLive == <<"/", "h", "e", "a", "l", "t", "h", "/", "l", "i", "v", "e">>
uRoot == <<"/">>
uRootQuery == <<"/", "?", "q", "=", "1">>
Urls == {uTest, uHealth, uHealthSlash, uHealthSlashes, uHealthQuery, uHealthFragment,
         uHealthcheck, uHealthLive, uRoot, uRootQuery}

EmptyObject == Obj(<<>>)
Request(url, body, params, query) ==
  [url |-> url, body |-> body, params |-> params, query |-> query]
Requests ==
  {Request(uTest, body, EmptyObject, EmptyObject) : body \in Bodies}
    \cup {Request(url, Obj(<<Entry(sOpA, Str(sB))>>), Obj(<<Entry(<<"i", "d">>, Str(sOpA))>>),
                  Obj(<<Entry(<<"q">>, Str(<<"$", "1">>))>>)) : url \in Urls}
    \cup {Request(uTest, Obj(<<Entry(sId, Str(sOpA))>>), Obj(<<Entry(sOpA, Str(sB))>>),
                  Obj(<<Entry(sOpA, Str(sB))>>)),
          Request(uTest, Obj(<<Entry(sOpA, Str(sB))>>), Obj(<<Entry(sOpA, Str(sB))>>),
                  Obj(<<Entry(sId, Str(sOpA)), Entry(sOpA, Str(sB))>>))}
NoRequest == Request(<<>>, Undef, Undef, Undef)

(***************************************************************************)
(* Options passed to register: a base choice, in auto mode, in manual      *)
(* mode, and in auto mode with a skip route.                               *)
(***************************************************************************)
NoOptions == [x \in {} |-> 0]
Family(bases) ==
  bases \cup {o @@ [mode |-> "manual"] : o \in bases}
        \cup {o @@ [skipRoutes |-> Arr(<<Str(uHealth)>>)] : o \in bases}

DefaultFamily == Family({NoOptions})

RemoveFamily ==
  Family({[removeMatches |-> Bool(TRUE)],
          [removeMatches |-> Bool(TRUE), patterns |-> Arr(<<ClassPattern({"$"})>>)]})

KeysFamily ==
  Family({[allowedKeys |-> Arr(<<Str(sA), Str(sOpA)>>)],
          [deniedKeys |-> Arr(<<Str(sA)>>)],
          [allowedKeys |-> Arr(<<Str(sA), Str(sB)>>), deniedKeys |-> Arr(<<Str(sB)>>),
           recursive |-> Bool(FALSE)],
          [allowedKeys |-> Arr(<<>>), deniedKeys |-> Arr(<<>>)]})

SkipFamily ==
  Family({[skipRoutes |-> Arr(routes)] :
            routes \in {<<Str(uHealth)>>, <<Str(uHealthSlashes)>>, <<Str(uRoot)>>,
                        <<Str(<<>>)>>, <<Num(1)>>, <<Str(uHealthLive), Str(uRootQuery)>>,
                        <<Str(uTest), Null>>}})

ShallowFamily ==
  Family({[recursive |-> Bool(FALSE)],
          [recursive |-> Bool(FALSE), removeEmpty |-> Bool(TRUE),
           arrayOptions |-> [filterNull |-> TRUE, distinct |-> TRUE]]})

ArrayFamily ==
  Family({[arrayOptions |-> [filterNull |-> TRUE, distinct |-> TRUE]],
          [arrayOptions |-> [filterNull |-> TRUE, distinct |-> FALSE]],
          [arrayOptions |-> [filterNull |-> FALSE, distinct |-> TRUE]]})

EmptyFamily ==
  Family({[removeEmpty |-> Bool(TRUE)],
          [removeEmpty |-> Bool(TRUE),
           arrayOptions |-> [filterNull |-> TRUE, distinct |-> FALSE]]})

CustomFamily ==
  Family({[customSanitizer |-> fnStrict],
          [customSanitizer |-> fnStrict, sanitizeObjects |-> <<"query", "params", "body">>],
          [customSanitizer |-> fnIdentity, removeMatches |-> Bool(TRUE),
           removeEmpty |-> Bool(TRUE), deniedKeys |-> Arr(<<Str(sA)>>),
           allowedKeys |-> Arr(<<Str(sA), Str(sB)>>),
           stringOptions |-> [trim |-> TRUE, lowercase |-> TRUE, maxLength |-> 1],
           arrayOptions |-> [filterNull |-> TRUE, distinct |-> TRUE]],
          [customSanitizer |-> fnArguments]})

\* Options of a wrong shape, next to the valid ones of DefaultFamily.
InvalidFamily ==
  DefaultFamily \cup
    {[mode |-> "both"],
     [skipRoutes |-> Str(uHealth)],
     [patterns |-> Null],
     [replaceWith |-> Num(1)],
     [customSanitizer |-> Num(1)],
     [allowedKeys |-> Str(sA)],
     [recursive |-> Str(<<>>)],
     [removeMatches |-> Num(1)],
     [recursive |-> Null],
     [removeEmpty |-> Num(1), mode |-> "manual"],
     [patterns |-> Str(sA), replaceWith |-> Null, mode |-> "manual"],
     [debug |-> Num(1)],
     [debug |-> Null],
     [debug |-> Undef, mode |-> "both"]}

FrameFamily ==
  Family({NoOptions,
          [recursive |-> Bool(FALSE)],
          [removeMatches |-> Bool(TRUE), removeEmpty |-> Bool(TRUE),
           arrayOptions |-> [filterNull |-> TRUE, distinct |-> TRUE]]})

StringFamily ==
  Family({[stringOptions |-> [trim |-> FALSE, lowercase |-> FALSE, maxLength |-> 1]],
          [stringOptions |-> [trim |-> TRUE, lowercase |-> TRUE, maxLength |-> 2]]})

\* Replacement strings that are not empty, with the patterns in two orders
\* and with the string options.
PipelineFamily ==
  Family({[replaceWith |-> Str(<<"a", "B">>),
           patterns |-> Arr(<<ClassPattern({"$"}), ClassPattern({"a"})>>)],
          [replaceWith |-> Str(<<"a", "B">>),
           patterns |-> Arr(<<ClassPattern({"a"}), ClassPattern({"$"})>>),
           stringOptions |-> [trim |-> TRUE, lowercase |-> TRUE, maxLength |-> 2]],
          [replaceWith |-> Str(<<" ">>),
           stringOptions |-> [trim |-> TRUE, lowercase |-> FALSE, maxLength |-> 0]],
          [replaceWith |-> Str(<<"$", "&">>)],
          [replaceWith |-> Str(<<"$", "$">>),
           stringOptions |-> [trim |-> FALSE, lowercase |-> FALSE, maxLength |-> 1]]})

(***************************************************************************)
(* The plugin: registration, then for every request the preHandler hook    *)
(* (auto mode) or the calls of request.sanitize() the route handler makes  *)
(* (manual mode), then the response.                                       *)
(***************************************************************************)
VARIABLES
  userOptions,  \* the options passed to register
  opt,          \* the merged options, fixed at registration
  skipRoutes,   \* the set of normalised skip routes
  hook,         \* the preHandler hook is installed
  decorator,    \* request.sanitize is installed
  lastIndex,    \* lastIndex of each /g pattern of opt.patterns
  pc,           \* "init", "failed", "listening", "preHandler", "handler", "errored"
  request,      \* the request being served, as the handler sees it
  received,     \* the same request as it arrived
  calls,        \* how often handleRequest ran on the request
  bypassed,     \* the hook skipped the request
  error,        \* the error thrown to the host, NoError when none
  heap,         \* the objects and arrays of the request being served
  handlerOptions, \* the options the route handlers pass to request.sanitize
  passed        \* the options of the last request.sanitize call on the request

vars == <<userOptions, opt, skipRoutes, hook, decorator, lastIndex, pc,
          request, received, calls, bypassed, error, heap, handlerOptions, passed>>

InitCalling(family, overrides) ==
  /\ userOptions \in family
  /\ handlerOptions = overrides
  /\ passed = NoOptions
  /\ opt = DEFAULT_OPTIONS
  /\ skipRoutes = {}
  /\ hook = FALSE
  /\ decorator = FALSE
  /\ lastIndex = Zeros(Len(PATTERNS))
  /\ pc = "init"
  /\ request = NoRequest
  /\ received = NoRequest
  /\ calls = 0
  /\ bypassed = FALSE
  /\ error = NoError
  /\ heap = EmptyHeap

\* The route handlers call request.sanitize() without arguments.
InitWith(family) == InitCalling(family, {NoOptions})

\* Registration throws: nothing is installed.
RegisterFails(thrown) ==
  /\ error' = thrown
  /\ pc' = "failed"
  /\ UNCHANGED <<skipRoutes, hook, decorator, lastIndex>>

\* The skip set is built, request.sanitize is decorated in manual mode and
\* the hook is added in the modes of hookModes.
RegisterInstalls(merged, hookModes) ==
  /\ skipRoutes' = {cleanUrl(merged.skipRoutes.v[i]) : i \in 1..Len(merged.skipRoutes.v)}
  /\ decorator' = (merged.mode = "manual")
  /\ hook' = (merged.mode \in hookModes)
  /\ lastIndex' = Zeros(Len(merged.patterns.v))
  /\ pc' = "listening"
  /\ UNCHANGED error

\* fastifyMongoSanitize(fastify, options, done): the first log call reads
\* opt.debug.level, then validateOptions, then the installation.
RegisterWith(hookModes) ==
  /\ pc = "init"
  /\ LET merged == Merge(DEFAULT_OPTIONS, userOptions)
     IN  /\ opt' = merged
         /\ IF merged.debug.t \in {"null", "undef"}
              THEN RegisterFails(TypeError(<<"Cannot read properties of ", merged.debug.t>>))
            ELSE IF validateOptions(merged) # NoError
              THEN RegisterFails(validateOptions(merged))
            ELSE RegisterInstalls(merged, hookModes)
  /\ UNCHANGED <<userOptions, request, received, calls, bypassed, heap, handlerOptions, passed>>

\* A registration that adds the hook in manual mode as well.
RegisterHookAlways == RegisterWith({"auto", "manual"})

Register == RegisterWith({"auto"})

\* A request arrives; the hook, when installed, runs before the handler.
Receive ==
  /\ pc = "listening"
  /\ \E r \in Requests :
       /\ request' = r
       /\ received' = r
       /\ heap' = LoadRequest(r)
  /\ calls' = 0
  /\ bypassed' = FALSE
  /\ pc' = IF hook THEN "preHandler" ELSE "handler"
  /\ UNCHANGED <<userOptions, opt, skipRoutes, hook, decorator, lastIndex, error,
                 handlerOptions, passed>>

\* The preHandler hook of auto mode.  An error of handleRequest leaves the
\* hook before done() and the handler is not run.
PreHandler ==
  /\ pc = "preHandler"
  /\ hook
  /\ IF skipRoutes # {} /\ cleanUrl(Str(request.url)) \in skipRoutes
       THEN /\ bypassed' = TRUE
            /\ pc' = "handler"
            /\ UNCHANGED <<request, lastIndex, calls, error, heap>>
       ELSE \E r \in {handleRequest(request, opt, lastIndex)} :
              /\ request' = r.val
              /\ heap' = handleRequestAt(heap, opt, lastIndex)
              /\ lastIndex' = r.li
              /\ error' = r.err
              /\ pc' = IF r.err = NoError THEN "handler" ELSE "errored"
              /\ calls' = calls + 1
              /\ UNCHANGED bypassed
  /\ UNCHANGED <<userOptions, opt, skipRoutes, hook, decorator, received,
                 handlerOptions, passed>>

\* request.sanitize that looks the URL up in the skip set as the hook does.
SanitizeSkipping ==
  /\ pc = "handler"
  /\ decorator
  /\ calls < MaxCalls
  /\ \E options \in handlerOptions :
       /\ passed' = options
       /\ IF cleanUrl(Str(request.url)) \in skipRoutes
            THEN UNCHANGED <<request, heap, lastIndex, error, pc>>
            ELSE \E r \in {handleRequest(request, Merge(opt, options), lastIndex)} :
                   /\ request' = r.val
                   /\ heap' = handleRequestAt(heap, Merge(opt, options), lastIndex)
                   /\ lastIndex' = r.li
                   /\ error' = r.err
                   /\ pc' = IF r.err = NoError THEN "handler" ELSE "errored"
  /\ calls' = calls + 1
  /\ UNCHANGED <<userOptions, opt, skipRoutes, hook, decorator, received, bypassed,
                 handlerOptions>>

\* request.sanitize with Object.assign(opt, options) for the merge.
SanitizeAssigning ==
  /\ pc = "handler"
  /\ decorator
  /\ calls < MaxCalls
  /\ \E options \in handlerOptions :
       /\ passed' = options
       /\ opt' = Merge(opt, options)
       /\ \E r \in {handleRequest(request, Merge(opt, options), lastIndex)} :
            /\ request' = r.val
            /\ heap' = handleRequestAt(heap, Merge(opt, options), lastIndex)
            /\ lastIndex' = r.li
            /\ error' = r.err
            /\ pc' = IF r.err = NoError THEN "handler" ELSE "errored"
  /\ calls' = calls + 1
  /\ UNCHANGED <<userOptions, skipRoutes, hook, decorator, received, bypassed,
                 handlerOptions>>

\* request.sanitize(options = {}) called by the route handler.
Sanitize ==
  /\ pc = "handler"
  /\ decorator
  /\ calls < MaxCalls
  /\ \E options \in handlerOptions :
       /\ passed' = options
       /\ \E r \in {handleRequest(request, Merge(opt, options), lastIndex)} :
            /\ request' = r.val
            /\ heap' = handleRequestAt(heap, Merge(opt, options), lastIndex)
            /\ lastIndex' = r.li
            /\ error' = r.err
            /\ pc' = IF r.err = NoError THEN "handler" ELSE "errored"
  /\ calls' = calls + 1
  /\ UNCHANGED <<userOptions, opt, skipRoutes, hook, decorator, received, bypassed,
                 handlerOptions>>

\* The handler returns, or the error is answered, and the request is gone.
Respond ==
  /\ pc \in {"handler", "errored"}
  /\ pc' = "listening"
  /\ request' = NoRequest
  /\ received' = NoRequest
  /\ calls' = 0
  /\ bypassed' = FALSE
  /\ error' = NoError
  /\ heap' = EmptyHeap
  /\ passed' = NoOptions
  /\ UNCHANGED <<userOptions, opt, skipRoutes, hook, decorator, lastIndex, handlerOptions>>

Next == Register \/ Receive \/ PreHandler \/ Sanitize \/ Respond

Init == InitWith(DefaultFamily)
Spec == Init /\ [][Next]_vars

InitRemove == InitWith(RemoveFamily)
SpecRemove == InitRemove /\ [][Next]_vars

InitKeys == InitWith(KeysFamily)
SpecKeys == InitKeys /\ [][Next]_vars

InitSkip == InitWith(SkipFamily)
SpecSkip == InitSkip /\ [][Next]_vars

InitShallow == InitWith(ShallowFamily)
SpecShallow == InitShallow /\ [][Next]_vars

InitString == InitWith(StringFamily)
SpecString == InitString /\ [][Next]_vars

InitEmpty == InitWith(EmptyFamily)
SpecEmpty == InitEmpty /\ [][Next]_vars

InitCustom == InitWith(CustomFamily)
SpecCustom == InitCustom /\ [][Next]_vars

InitInvalid == InitWith(InvalidFamily)
SpecInvalid == InitInvalid /\ [][Next]_vars

InitFrame == InitWith(FrameFamily)
SpecFrame == InitFrame /\ [][Next]_vars

InitArray == InitWith(ArrayFamily)
SpecArray == InitArray /\ [][Next]_vars

\* Route handlers that pass options to request.sanitize.
Overrides ==
  {NoOptions, [removeMatches |-> Bool(TRUE)], [removeMatches |-> Bool(FALSE)],
   [recursive |-> Bool(FALSE), replaceWith |-> Str(<<"a">>)]}
OverrideFamily == Family({NoOptions, [removeMatches |-> Bool(TRUE)]})
InitOverride == InitCalling(OverrideFamily, Overrides)
SpecOverride == InitOverride /\ [][Next]_vars

\* Configurations with and without entries that are dropped.
CollisionFamily ==
  Family({NoOptions, [deniedKeys |-> Arr(<<Str(sA)>>)], [removeEmpty |-> Bool(TRUE)]})
InitCollision == InitWith(CollisionFamily)
SpecCollision == InitCollision /\ [][Next]_vars

InitPipeline == InitWith(PipelineFamily)
SpecPipeline == InitPipeline /\ [][Next]_vars

(***************************************************************************)
(* What the claims talk about.                                             *)
(***************************************************************************)
Fields == {"body", "params", "query"}

\* The request has been through handleRequest (hook or request.sanitize).
Handled == pc = "handler" /\ calls >= 1
HandledOnce == pc = "handler" /\ calls = 1

\* The mapping handleRequest starts from for a field.
Original(field) == ObjectAssign(received[field])

\* The string values, the keys and the values of a value, at every depth.
RECURSIVE StringValues(_)
StringValues(x) ==
  CASE x.t = "str" -> {x.v}
    [] x.t = "arr" -> UNION {StringValues(x.v[i]) : i \in 1..Len(x.v)}
    [] x.t = "obj" -> UNION {StringValues(x.v[i].v) : i \in 1..Len(x.v)}
    [] OTHER -> {}
RECURSIVE AllKeys(_)
AllKeys(x) ==
  CASE x.t = "arr" -> UNION {AllKeys(x.v[i]) : i \in 1..Len(x.v)}
    [] x.t = "obj" -> {x.v[i].k : i \in 1..Len(x.v)}
                        \cup UNION {AllKeys(x.v[i].v) : i \in 1..Len(x.v)}
    [] OTHER -> {}
RECURSIVE SubValues(_)
SubValues(x) ==
  CASE x.t = "arr" -> {x} \cup UNION {SubValues(x.v[i]) : i \in 1..Len(x.v)}
    [] x.t = "obj" -> {x} \cup UNION {SubValues(x.v[i].v) : i \in 1..Len(x.v)}
    [] OTHER -> {x}

Keys(obj) == {obj.v[i].k : i \in 1..Len(obj.v)}
Entries(obj) == {obj.v[i] : i \in 1..Len(obj.v)}

NoOperatorChars(s) == \A i \in 1..Len(s) : s[i] \notin {"$", "."}

DefaultScrubbing == opt.patterns = Arr(PATTERNS) /\ opt.replaceWith = Str(<<>>)
\* The default configuration of the engine (mode and skipRoutes apart).
DefaultEngine ==
  \A f \in DOMAIN opt \ {"mode", "skipRoutes"} : opt[f] = DEFAULT_OPTIONS[f]

\* C1: under the default patterns and replaceWith = '', after sanitization
\* with recursive on, every string value of a target field, at every
\* depth, is free of '$' and '.', unless it is an email address that the
\* input already held.
C1_NoOperatorChars ==
  (Handled /\ DefaultScrubbing /\ Truthy(opt.recursive)) =>
    \A f \in Fields : \A s \in StringValues(request[f]) :
      \/ NoOperatorChars(s)
      \/ (isEmail(s) /\ s \in StringValues(received[f]))

C1_Witness ==
  /\ HandledOnce
  /\ DefaultScrubbing
  /\ received.body =
       Obj(<<Entry(sB, Obj(<<Entry(sOpA, Arr(<<Str(sOpA), Obj(<<Entry(sA, Str(sOpA))>>)>>))>>))>>)
  /\ request.body =
       Obj(<<Entry(sB, Obj(<<Entry(sA, Arr(<<Str(sA), Obj(<<Entry(sA, Str(sA))>>)>>))>>))>>)

\* C2: under the default configuration sanitizeValue is idempotent on
\* every value of a request (S(S(x)) = S(x)), and a second run of
\* handleRequest on a request leaves its fields as the first run left them.
SanitizedOnce(x) == sanitizeValue(x, opt, FALSE, lastIndex).val
IdempotentOn(once) == sanitizeValue(once, opt, FALSE, lastIndex).val = once
C2_Idempotent ==
  [][DefaultEngine =>
       /\ \A f \in Fields : \A x \in SubValues(received[f]) : IdempotentOn(SanitizedOnce(x))
       /\ (calls >= 1 /\ calls' = calls + 1) => request' = request]_vars

C2_Witness ==
  /\ pc = "handler"
  /\ calls = 2
  /\ DefaultEngine
  /\ received.body = Obj(<<Entry(sOpA, Str(sOpA)), Entry(sA, Str(sEmail))>>)
  /\ request.body = Obj(<<Entry(sA, Str(sEmail))>>)

\* The mapping a field holds after handleRequest (none for a field that
\* was skipped as falsy).
Out(field) == IF isPlainObject(request[field]) THEN request[field] ELSE Obj(<<>>)
\* The key an input key is stored under.
SanitizedKey(key) == sanitizeString(Str(key), opt, FALSE, lastIndex).val.v
\* The string matches one of the configured patterns somewhere.
MatchesAny(s) == \E n \in 1..Len(opt.patterns.v) : FirstMatch(opt.patterns.v[n], s, 0) # 0
\* The strings of a list option.
Listed(list) == {list.v[i].v : i \in {j \in 1..Len(list.v) : isString(list.v[j])}}
NonEmptyList(list) == isArray(list) /\ Len(list.v) # 0
NestedValue(x) == isPlainObject(x) \/ isArray(x)
\* Every entry of out comes from an entry of in whose key is in ok, under
\* the sanitized key, and so do the entries of the mappings below it.
RECURSIVE KeysFrom(_, _, _)
KeysFrom(in, out, ok) ==
  CASE in.t = "obj" /\ out.t = "obj" ->
         \A i \in 1..Len(out.v) : \E j \in 1..Len(in.v) :
           /\ in.v[j].k \in ok
           /\ SanitizedKey(in.v[j].k) = out.v[i].k
           /\ KeysFrom(in.v[j].v, out.v[i].v, ok)
    [] in.t = "arr" /\ out.t = "arr" ->
         /\ Len(in.v) = Len(out.v)
         /\ \A i \in 1..Len(out.v) : KeysFrom(in.v[i], out.v[i], ok)
    [] OTHER -> in.t = out.t
\* The same for the entries of the top-level mapping only.
TopKeysFrom(in, out, ok) ==
  \A o \in Entries(out) : \E e \in Entries(in) :
    /\ e.k \in ok
    /\ SanitizedKey(e.k) = o.k
    /\ e.v.t = o.v.t
TopStringValues(obj) == {e.v.v : e \in {x \in Entries(obj) : isString(x.v)}}

\* C3: with removeMatches on, every output entry of a target field comes
\* from an input entry whose key matches no pattern and whose value is not
\* a non-email string matching a pattern (matching entries are dropped
\* whole), and an entry with a non-matching key and an email value is kept
\* with its value unchanged.
Matching(e) ==
  MatchesAny(e.k) \/ (isString(e.v) /\ ~isEmail(e.v.v) /\ MatchesAny(e.v.v))
C3_MatchesDropped ==
  (HandledOnce /\ Truthy(opt.removeMatches)) =>
    \A f \in Fields :
      /\ \A o \in Entries(Out(f)) : \E e \in Entries(Original(f)) :
           ~Matching(e) /\ SanitizedKey(e.k) = o.k
      /\ \A e \in Entries(Original(f)) :
           (~MatchesAny(e.k) /\ isString(e.v) /\ isEmail(e.v.v)) =>
             \E o \in Entries(Out(f)) :
               /\ o.k = SanitizedKey(e.k)
               /\ \/ o.v = e.v
                  \/ \E d \in Entries(Original(f)) :
                       d # e /\ SanitizedKey(d.k) = o.k

\* C4: with a non-empty allowedKeys list, every entry of the output
\* mapping comes from an input entry whose original key is in allowedKeys,
\* at every depth when recursive is on; the kept string values are
\* scrubbed and the kept email values are the input's.
C4_AllowedKeys ==
  (HandledOnce /\ NonEmptyList(opt.allowedKeys) /\ DefaultScrubbing) =>
    \A f \in Fields :
      IF Truthy(opt.recursive)
        THEN /\ KeysFrom(Original(f), Out(f), Listed(opt.allowedKeys))
             /\ \A s \in StringValues(Out(f)) :
                  NoOperatorChars(s) \/ (isEmail(s) /\ s \in StringValues(Original(f)))
        ELSE /\ TopKeysFrom(Original(f), Out(f), Listed(opt.allowedKeys))
             /\ \A s \in TopStringValues(Out(f)) :
                  NoOperatorChars(s) \/ (isEmail(s) /\ s \in TopStringValues(Original(f)))

C4_Witness ==
  /\ HandledOnce
  /\ opt.allowedKeys = Arr(<<Str(sA), Str(sOpA)>>)
  /\ received.body = Obj(<<Entry(sOpA, Str(sEmail)), Entry(sB, Str(sOpA))>>)
  /\ request.body = Obj(<<Entry(sA, Str(sEmail))>>)

\* C5 as stated: with a non-empty deniedKeys list, no key of the output
\* mapping (at every depth when recursive is on) is in deniedKeys.
C5_NoDeniedKey ==
  (Handled /\ NonEmptyList(opt.deniedKeys)) =>
    \A f \in Fields :
      (IF Truthy(opt.recursive) THEN AllKeys(Out(f)) ELSE Keys(Out(f)))
        \cap Listed(opt.deniedKeys) = {}

\* C5: with a non-empty deniedKeys list, every entry of the output mapping
\* (at every depth when recursive is on) comes from an input entry whose
\* original key is not in deniedKeys; its output key is the sanitized key,
\* which may itself be a denied key.
C5_DeniedDropped ==
  (HandledOnce /\ NonEmptyList(opt.deniedKeys)) =>
    \A f \in Fields :
      IF Truthy(opt.recursive)
        THEN KeysFrom(Original(f), Out(f),
                      AllKeys(Original(f)) \ Listed(opt.deniedKeys))
        ELSE TopKeysFrom(Original(f), Out(f),
                         Keys(Original(f)) \ Listed(opt.deniedKeys))

C5_Witness ==
  /\ HandledOnce
  /\ opt.deniedKeys = Arr(<<Str(sA)>>)
  /\ received.body = Obj(<<Entry(sOpA, Num(0)), Entry(sA, Str(sA))>>)
  /\ request.body = Obj(<<Entry(sA, Num(0))>>)

\* The normalized form of a URL or a skip route, in the words of the
\* claim: the text before the first '?' or '#', without its leading and
\* trailing '/', after one '/'.
CutAt(s) ==
  IF \E i \in 1..Len(s) : s[i] \in {"?", "#"}
    THEN CHOOSE i \in 1..Len(s) :
           s[i] \in {"?", "#"} /\ \A j \in 1..(i - 1) : s[j] \notin {"?", "#"}
    ELSE Len(s) + 1
NonSlash(s) == {i \in 1..(CutAt(s) - 1) : s[i] # "/"}
NormalForm(s) ==
  IF NonSlash(s) = {} THEN <<"/">>
  ELSE <<"/">> \o SubSeq(s, CHOOSE i \in NonSlash(s) : \A j \in NonSlash(s) : i <= j,
                            CHOOSE i \in NonSlash(s) : \A j \in NonSlash(s) : i >= j)
SkipEntries == {opt.skipRoutes.v[i] : i \in 1..Len(opt.skipRoutes.v)}
ValidRoute(e) == isString(e) /\ e.v # <<>>
Untouched == \A f \in Fields : request[f] = received[f]
Scrubbed ==
  \A f \in Fields : \A s \in AllKeys(Out(f)) \cup StringValues(Out(f)) :
    NoOperatorChars(s) \/ isEmail(s)
InAutoHandler == pc = "handler" /\ hook

C7_InvalidNeverMatches ==
  (InAutoHandler /\ \A e \in SkipEntries : ~ValidRoute(e)) =>
    (~bypassed /\ calls = 1)

\* C8: the canonical form of the root route is not the result of invalid
\* input; with '/' in skipRoutes the requests to '/' and '/?q=1' bypass
\* sanitization, and with valid entries none of which is the root route a
\* request to '/' is sanitized.
C8_RootCanonical ==
  /\ (pc # "init" /\ Str(uRoot) \in SkipEntries) => Null \notin skipRoutes
  /\ (InAutoHandler /\ Str(uRoot) \in SkipEntries /\ request.url \in {uRoot, uRootQuery})
       => bypassed
  /\ (InAutoHandler /\ request.url = uRoot
        /\ \A e \in SkipEntries : ValidRoute(e) /\ NormalForm(e.v) # <<"/">>)
       => (~bypassed /\ calls = 1)

\* C9: with recursive off, a mapping or a sequence that is a value of the
\* top-level mapping of a target field is in the output as the input had
\* it, under the sanitized key, and the top-level keys and the top-level
\* string values are scrubbed.
C9_ShallowLeavesNested ==
  (HandledOnce /\ ~Truthy(opt.recursive) /\ DefaultScrubbing) =>
    \A f \in Fields :
      /\ \A o \in Entries(Out(f)) :
           /\ \E e \in Entries(Original(f)) :
                SanitizedKey(e.k) = o.k /\ (NestedValue(o.v) => e.v = o.v)
           /\ NoOperatorChars(o.k)
      /\ \A e \in Entries(Original(f)) :
           (/\ NestedValue(e.v)
            /\ ~(Truthy(opt.removeEmpty) /\ SanitizedKey(e.k) = <<>>)
            /\ \A d \in Entries(Original(f)) : SanitizedKey(d.k) = SanitizedKey(e.k) => d = e)
             => Entry(SanitizedKey(e.k), e.v) \in Entries(Out(f))
      /\ \A s \in TopStringValues(Out(f)) :
           NoOperatorChars(s) \/ (isEmail(s) /\ s \in TopStringValues(Original(f)))

\* C10: with a positive maxLength, every string value of the sanitized
\* output, at every depth, as a mapping value or as a sequence element, is
\* at most maxLength long, and every output key is a whole sanitized key.
C10_MaxLength ==
  (Handled /\ opt.stringOptions.maxLength > 0) =>
    \A f \in Fields :
      /\ \A s \in StringValues(Out(f)) : Len(s) <= opt.stringOptions.maxLength
      /\ \A k \in AllKeys(Out(f)) : \E e \in AllKeys(Original(f)) : k = SanitizedKey(e)

(***************************************************************************)
(* C11: array post-processing works on the sanitized items.  Where a       *)
(* target field holds one entry whose value is an array, the array of the  *)
(* output is the sequence of the sanitized items, in their order, without  *)
(* the falsy ones when filterNull is set and without the items equal to an *)
(* earlier one when distinct is set (equal as in a Set: primitives by      *)
(* value, nested arrays and objects never).  So, with both set,            *)
(* ['$a','$a',null,'$ab',null] becomes ['a','ab'] and [1,1,2,null]         *)
(* becomes [1,2].                                                          *)
(***************************************************************************)
SanitizedItems(arr) == [i \in 1..Len(arr.v) |-> sanitizeValue(arr.v[i], opt, FALSE, lastIndex).val]
KeptItems(m) ==
  {i \in 1..Len(m) :
     /\ opt.arrayOptions.filterNull => Truthy(m[i])
     /\ (opt.arrayOptions.distinct /\ ByValue(m[i])) => \A j \in 1..(i - 1) : m[j] # m[i]}
Selected(out, m, kept) ==
  /\ isArray(out)
  /\ Len(out.v) = Cardinality(kept)
  /\ \A i \in kept : out.v[Cardinality({j \in kept : j <= i})] = m[i]
OneArray(x) == isPlainObject(x) /\ Len(x.v) = 1 /\ isArray(x.v[1].v)
BothArrayOptions == opt.arrayOptions.filterNull /\ opt.arrayOptions.distinct
Mappings(x) == {y \in SubValues(x) : isPlainObject(y)}
C12_NoEmptyEntries ==
  (Handled /\ Truthy(opt.removeEmpty)) =>
    \A f \in Fields : \A m \in Mappings(Out(f)) : \A e \in Entries(m) :
      e.k # <<>> /\ Truthy(e.v)

(***************************************************************************)
(* C13: in manual mode nothing is sanitized automatically.  No hook is     *)
(* installed and the request reaches the handler as received; its target   *)
(* fields stay as received until request.sanitize() is called, so that a   *)
(* handler that never calls it ends with the fields unchanged; after a     *)
(* call every present target field holds the sanitized form of a shallow   *)
(* copy of what was received, and an absent field stays as it is.          *)
(***************************************************************************)
Manual == opt.mode = "manual" /\ pc \notin {"init", "failed"}
SanitizedForm(field) == sanitizeValue(Original(field), opt, FALSE, Zeros(Len(opt.patterns.v))).val
C13_ManualMode ==
  Manual =>
    /\ ~hook /\ decorator
    /\ pc # "preHandler"
    /\ (pc = "handler" /\ calls = 0) => Untouched
    /\ Handled =>
         \A f \in Fields :
           request[f] = IF Truthy(received[f]) THEN SanitizedForm(f) ELSE received[f]

C13_Witness ==
  /\ Manual
  /\ HandledOnce
  /\ received.body = Obj(<<Entry(sOpA, Str(sB))>>)
  /\ received.query = Obj(<<Entry(<<"q">>, Str(<<"$", "1">>))>>)
  /\ request.body = Obj(<<Entry(sA, Str(sB))>>)
  /\ request.params = Obj(<<Entry(sId, Str(sA))>>)
  /\ request.query = Obj(<<Entry(<<"q">>, Str(<<"1">>))>>)

(***************************************************************************)
(* C14: the target fields are processed in the order of sanitizeObjects.   *)
(* With a custom sanitizer that throws on a field holding the key 'id':    *)
(* when no present field holds it, handleRequest returns; otherwise the    *)
(* error reaches the caller, the first such field in the order and every   *)
(* field after it are as received, and every present field before it holds *)
(* what the custom sanitizer returned for it.                              *)
(***************************************************************************)
FieldAt(n) == opt.sanitizeObjects[n]
Failing(n) == Truthy(received[FieldAt(n)]) /\ sId \in Keys(Original(FieldAt(n)))
FirstFailing == MinOrZero({n \in 1..Len(opt.sanitizeObjects) : Failing(n)})
NotOperatorKey(e) == e.k = <<>> \/ e.k[1] # "$"
StrictOf(x) == Obj(SelectSeq(x.v, NotOperatorKey))
AfterOneCall == pc \in {"handler", "errored"} /\ calls = 1
C14_ErrorLeavesLaterFieldsRaw ==
  (AfterOneCall /\ opt.customSanitizer = fnStrict) =>
    IF FirstFailing = 0
      THEN pc = "handler" /\ error = NoError
      ELSE /\ pc = "errored"
           /\ error = HostError(<<"id">>)
           /\ \A n \in 1..Len(opt.sanitizeObjects) :
                /\ n >= FirstFailing => request[FieldAt(n)] = received[FieldAt(n)]
                /\ (n < FirstFailing /\ Truthy(received[FieldAt(n)])) =>
                     request[FieldAt(n)] = StrictOf(Original(FieldAt(n)))

\* The default order: params throws, body is replaced, query is raw.
C14_Witness ==
  /\ pc = "errored"
  /\ opt.sanitizeObjects = <<"body", "params", "query">>
  /\ received.body = Obj(<<Entry(sOpA, Str(sB))>>)
  /\ received.params = Obj(<<Entry(sId, Str(sOpA))>>)
  /\ request.body = Obj(<<>>)
  /\ request.params = Obj(<<Entry(sId, Str(sOpA))>>)
  /\ request.query = Obj(<<Entry(<<"q">>, Str(<<"$", "1">>))>>)
  /\ error = HostError(<<"id">>)

(***************************************************************************)
(* C16: with a customSanitizer configured, each present target field is    *)
(* replaced by exactly what the function returns for a shallow copy of the *)
(* field, whatever removeMatches, removeEmpty, allowedKeys, deniedKeys,    *)
(* the string and the array options say: the identity function leaves the  *)
(* shallow copy as it is, operator characters, denied keys and empty       *)
(* values included.                                                        *)
(***************************************************************************)
CustomResult(x) ==
  CASE opt.customSanitizer = fnIdentity -> x
    [] opt.customSanitizer = fnStrict -> StrictOf(x)
C16_CustomReplacesBuiltIn ==
  (HandledOnce /\ opt.customSanitizer \in {fnIdentity, fnStrict}) =>
    \A f \in Fields :
      request[f] = IF Truthy(received[f]) THEN CustomResult(Original(f)) ELSE received[f]

\* removeMatches, removeEmpty and deniedKeys ['a'] are set: the entries
\* '$a': '$a' and 'a': null stay.
C16_Witness ==
  /\ HandledOnce
  /\ opt.customSanitizer = fnIdentity
  /\ Truthy(opt.removeMatches) /\ Truthy(opt.removeEmpty)
  /\ opt.deniedKeys = Arr(<<Str(sA)>>)
  /\ received.body = Obj(<<Entry(sOpA, Str(sOpA)), Entry(sA, Null)>>)
  /\ request.body = Obj(<<Entry(sOpA, Str(sOpA)), Entry(sA, Null)>>)

\* C17: the custom sanitizer is called with two arguments, the data of the
\* target field and the options object: a function that returns the number
\* of arguments it was called with returns 2 for every present field.
C17_TwoArguments ==
  (HandledOnce /\ opt.customSanitizer = fnArguments) =>
    \A f \in Fields :
      Truthy(received[f]) => request[f] = Obj(<<Entry(sArgs, Num(2))>>)

(***************************************************************************)
(* C15: registration validates the merged options before it installs       *)
(* anything.  When a validated field has the wrong shape, registration     *)
(* throws a FastifyMongoSanitizeError of type 'type_error' whose message   *)
(* names the first such field, and neither the hook nor the decorator is   *)
(* installed; otherwise registration completes.                            *)
(***************************************************************************)
FirstOffending == ValidatedKeys[MinOrZero(InvalidKeys(opt))]
C15_InvalidOptionsRejected ==
  pc # "init" =>
    IF InvalidKeys(opt) # {}
      THEN /\ pc = "failed"
           /\ error.name = "FastifyMongoSanitizeError"
           /\ error.type = "type_error"
           /\ error.message = <<"Invalid configuration: ", FirstOffending>>
           /\ ~hook /\ ~decorator
      ELSE pc # "failed" /\ (hook \/ decorator)

(***************************************************************************)
(* C19: no mutable state is shared between requests.  Whatever requests    *)
(* were handled before, the target fields a request leaves handleRequest   *)
(* with are those it leaves it with on a fresh registration, where every   *)
(* pattern has lastIndex 0.                                                *)
(***************************************************************************)
FreshlyHandled == handleRequest(received, opt, Zeros(Len(opt.patterns.v))).val
C19_NoSharedState ==
  HandledOnce => \A f \in Fields : request[f] = FreshlyHandled[f]

(***************************************************************************)
(* C20: sanitizeValue is total.  For every value met in a request, at any  *)
(* depth, it returns and throws no type_error; null, undefined, numbers,   *)
(* booleans, Date values and values of an unrecognized type (functions)    *)
(* are returned as they are, so that only strings, arrays and objects are  *)
(* rewritten; and handleRequest, which dispatches every field through it,  *)
(* never fails.                                                            *)
(***************************************************************************)
PassThrough(x) == x.t \in {"null", "undef", "num", "bool", "date", "func"}
Dispatched(x) == sanitizeValue(x, opt, TRUE, lastIndex).val
Thrown(x) == x.t = "throw"
C20_DispatcherTotal ==
  /\ pc # "errored"
  /\ error = NoError
  /\ pc \in {"preHandler", "handler"} =>
       \A f \in Fields :
         /\ \A x \in SubValues(received[f]) :
              /\ ~Thrown(Dispatched(x))
              /\ PassThrough(x) => Dispatched(x) = x
              /\ Dispatched(x) # x => x.t \in {"str", "arr", "obj"}
         /\ \A y \in SubValues(request[f]) : ~Thrown(y)

\* A Date and a function in an object, under a key that is rewritten.
C20_Witness ==
  /\ HandledOnce
  /\ received.body = Obj(<<Entry(sK, Obj(<<Entry(sOpA, Date(0)), Entry(sB, fnHost)>>))>>)
  /\ request.body = Obj(<<Entry(sK, Obj(<<Entry(sA, Date(0)), Entry(sB, fnHost)>>))>>)

(***************************************************************************)
(* C18: sanitization never mutates its input.  After handleRequest ran,    *)
(* once or more, the objects and arrays the target fields held when the    *)
(* request arrived, with everything nested in them, hold exactly the keys, *)
(* elements and strings they arrived with; the fields of the request hold  *)
(* other objects, whose content is the sanitized one.                      *)
(***************************************************************************)
OriginalNow(field) == ReadBack(heap.original[field], heap.cells)
CurrentNow(field) == ReadBack(heap.current[field], heap.cells)
C18_InputNotMutated ==
  Handled =>
    \A f \in Fields :
      /\ OriginalNow(f) = received[f]
      /\ CurrentNow(f) = request[f]
      /\ isRef(heap.original[f]) => heap.current[f] # heap.original[f]

\* Recursive: the nested object is read, its sanitized form is another
\* object.
C18_Witness ==
  /\ HandledOnce
  /\ Truthy(opt.recursive)
  /\ received.body = Obj(<<Entry(sOpA, Obj(<<Entry(sOpA, Str(sOpA))>>))>>)
  /\ OriginalNow("body") = Obj(<<Entry(sOpA, Obj(<<Entry(sOpA, Str(sOpA))>>))>>)
  /\ CurrentNow("body") = Obj(<<Entry(sA, Obj(<<Entry(sA, Str(sA))>>))>>)
  /\ request.body = Obj(<<Entry(sA, Obj(<<Entry(sA, Str(sA))>>))>>)

\* C21: the email exemption is for values only.  A key that has the form of
\* an email address is scrubbed like any key, so that under the default
\* patterns and replaceWith = '', with recursive on, no key of the output,
\* at any depth, holds '$' or '.'.
C21_KeysScrubbed ==
  (Handled /\ DefaultScrubbing /\ Truthy(opt.recursive)) =>
    \A f \in Fields : \A k \in AllKeys(request[f]) : NoOperatorChars(k)

\* C22: with removeMatches on, matched text is dropped and never rewritten:
\* every key and every string value of the output, at any depth, array
\* items included, is a key or a string value of the input and matches no
\* pattern, email values apart for the second.
C22_DroppedNotRewritten ==
  (Handled /\ Truthy(opt.removeMatches)) =>
    \A f \in Fields :
      /\ \A k \in AllKeys(request[f]) : k \in AllKeys(Original(f)) /\ ~MatchesAny(k)
      /\ \A s \in StringValues(request[f]) :
           s \in StringValues(Original(f)) /\ (isEmail(s) \/ ~MatchesAny(s))


(***************************************************************************)
(* C23: the sanitized string is the reference pipeline.  The reference     *)
(* folds over the patterns in list order, each step putting replaceWith,   *)
(* as it is written, in the place of every occurrence of the pattern in    *)
(* the accumulated string; then it trims if configured, then lowercases if *)
(* configured, then cuts to maxLength if configured and the string is a    *)
(* value.  Where a target field holds one entry with a string value, key   *)
(* and value not email addresses, the output holds the reference of the    *)
(* key (not a value) under which stands the reference of the value.        *)
(***************************************************************************)
RECURSIVE PutInPlace(_, _, _, _)
PutInPlace(pattern, s, replaceWith, i) ==
  IF i > Len(s) THEN <<>>
  ELSE IF MatchEnd(pattern, s, i) = 0
    THEN <<s[i]>> \o PutInPlace(pattern, s, replaceWith, i + 1)
    ELSE replaceWith \o PutInPlace(pattern, s, replaceWith, MatchEnd(pattern, s, i) + 1)
RECURSIVE Fold(_, _, _)
Fold(patterns, replaceWith, acc) ==
  IF patterns = <<>> THEN acc
  ELSE Fold(Tail(patterns), replaceWith, PutInPlace(Head(patterns), acc, replaceWith, 1))
Trimmed(s) == IF opt.stringOptions.trim THEN Trim(s) ELSE s
Lowered(s) == IF opt.stringOptions.lowercase THEN ToLowerCase(s) ELSE s
Capped(s, isValue) ==
  IF opt.stringOptions.maxLength > 0 /\ isValue
    THEN SubSeq(s, 1, MinOrZero({Len(s), opt.stringOptions.maxLength})) ELSE s
Reference(s, isValue) ==
  Capped(Lowered(Trimmed(Fold(opt.patterns.v, opt.replaceWith.v, s))), isValue)
OneStringEntry(x) ==
  /\ Len(x.v) = 1
  /\ isString(x.v[1].v)
  /\ ~isEmail(x.v[1].k)
  /\ ~isEmail(x.v[1].v.v)
C23_ReferencePipeline ==
  HandledOnce =>
    \A f \in Fields :
      OneStringEntry(Original(f)) =>
        Out(f) = Obj(<<Entry(Reference(Original(f).v[1].k, FALSE),
                             Str(Reference(Original(f).v[1].v.v, TRUE)))>>)


(***************************************************************************)
(* C24: the key filter decides on the original key.  An entry passes iff   *)
(* (allowedKeys is null or empty, or its original key is in allowedKeys)   *)
(* and not (deniedKeys is not empty and its original key is in it), so     *)
(* the keys of the output mapping of a target field are exactly the        *)
(* sanitized keys of the input entries that pass; an empty list filters    *)
(* nothing and a key in both lists is dropped.                             *)
(***************************************************************************)
Passes(key) ==
  /\ \/ opt.allowedKeys = Null
     \/ opt.allowedKeys = Arr(<<>>)
     \/ key \in Listed(opt.allowedKeys)
  /\ ~(NonEmptyList(opt.deniedKeys) /\ key \in Listed(opt.deniedKeys))
C24_FilterOnOriginalKey ==
  HandledOnce =>
    \A f \in Fields :
      Keys(Out(f)) = {SanitizedKey(k) : k \in {j \in Keys(Original(f)) : Passes(j)}}

C24_Witness ==
  /\ HandledOnce
  /\ opt.allowedKeys = Arr(<<Str(sA), Str(sB)>>)
  /\ opt.deniedKeys = Arr(<<Str(sB)>>)
  /\ isPlainObject(received.body)
  /\ {sA, sB} \subseteq Keys(received.body)
  /\ Keys(request.body) = {sA}


\* C25: with removeMatches on, an entry whose key matches a configured
\* pattern is dropped even when its value is an email address: no key of
\* the output of a target field is the sanitized form of a matching input
\* key that stands over an email value, unless another input entry gives
\* that key.
EmailEntries(x) == {e \in Entries(x) : isString(e.v) /\ isEmail(e.v.v) /\ MatchesAny(e.k)}
C25_EmailValueKeyDropped ==
  (HandledOnce /\ Truthy(opt.removeMatches)) =>
    \A f \in Fields : \A e \in EmailEntries(Original(f)) :
      (\A d \in Entries(Original(f)) : d # e => SanitizedKey(d.k) # SanitizedKey(e.k))
        => SanitizedKey(e.k) \notin Keys(Out(f))


\* C26: the boolean flags are shape-checked at registration.  When
\* removeMatches, recursive or removeEmpty is given a value that is not a
\* boolean, registration fails with a FastifyMongoSanitizeError of type
\* 'type_error' and installs nothing.
BooleanFlags == {"removeMatches", "recursive", "removeEmpty"}
C26_BooleanFlagsChecked ==
  (pc # "init" /\ \E flag \in BooleanFlags : opt[flag].t # "bool") =>
    /\ pc = "failed"
    /\ error.name = "FastifyMongoSanitizeError"
    /\ error.type = "type_error"
    /\ ~hook /\ ~decorator


(***************************************************************************)
(* C27: the base configuration and the skip set are fixed at registration. *)
(* Once registered, the base configuration is the merge of the defaults    *)
(* and the options of the registration and the skip set is the set of its  *)
(* normalised routes, no step changes them, and a request.sanitize() call  *)
(* without arguments leaves the request as handleRequest leaves it under   *)
(* the base configuration, whatever options earlier calls were given.      *)
(***************************************************************************)
Registered == pc \notin {"init", "failed"}
CallWithoutArguments == pc = "handler" /\ calls' = calls + 1 /\ passed' = NoOptions
BaseConfiguration == Merge(DEFAULT_OPTIONS, userOptions)
C27_ConfigurationFixed ==
  [][Registered =>
       /\ opt = BaseConfiguration /\ opt' = opt
       /\ skipRoutes = {cleanUrl(opt.skipRoutes.v[i]) : i \in 1..Len(opt.skipRoutes.v)}
       /\ skipRoutes' = skipRoutes
       /\ CallWithoutArguments => request' = handleRequest(request, opt, lastIndex).val]_vars

\* A call without arguments after a call with { removeMatches: true } on
\* the same request, under a base configuration without removeMatches.
C27_Witness ==
  /\ pc = "handler"
  /\ calls = 2
  /\ passed = NoOptions
  /\ ~Truthy(opt.removeMatches)
  /\ received.body = Obj(<<Entry(sOpA, Obj(<<Entry(sB, Str(sA))>>))>>)
  /\ request.body = Obj(<<>>)


(***************************************************************************)
(* C28: key collisions.  When entries of the mapping of a target field     *)
(* have different keys with the same sanitized key, the output has one     *)
(* entry under that key.  As stated, its value is the sanitized value of   *)
(* the entry that comes last in the input.                                 *)
(***************************************************************************)
SanitizedValueOf(value) == sanitizeValue(value, opt, TRUE, lastIndex).val
\* The positions of the input entries whose keys sanitize to key.
Under(x, key) == {i \in 1..Len(x.v) : SanitizedKey(x.v[i].k) = key}
Colliding(x) == {SanitizedKey(k) : k \in Keys(x)}
Collisions(x) == {key \in Colliding(x) : Cardinality(Under(x, key)) > 1}
ValuesAt(x, key) == {x.v[i].v : i \in {j \in 1..Len(x.v) : x.v[j].k = key}}
SingleKeys(x) == \A i, j \in 1..Len(x.v) : x.v[i].k = x.v[j].k => i = j
Stored(e) ==
  /\ Passes(e.k)
  /\ Truthy(opt.removeEmpty) =>
       \/ isString(e.v) /\ isEmail(e.v.v)
       \/ SanitizedKey(e.k) # <<>> /\ Truthy(SanitizedValueOf(e.v))
StoredUnder(x, key) == {i \in Under(x, key) : Stored(x.v[i])}
IndexedElements(array) ==
  Obj([i \in 1..Len(array.v) |-> Entry(IndexKey(i - 1), SanitizedValueOf(array.v[i]))])
C29_TopLevelArray ==
  HandledOnce =>
    \A f \in Fields : isArray(received[f]) => request[f] = IndexedElements(received[f])

C29_Witness ==
  /\ HandledOnce
  /\ opt.arrayOptions = [filterNull |-> TRUE, distinct |-> TRUE]
  /\ received.body = Arr(<<Str(sOpA), Str(sOpA), Null>>)
  /\ request.body = Obj(<<Entry(<<"0">>, Str(sA)), Entry(<<"1">>, Str(sA)), Entry(<<"2">>, Null)>>)


(***************************************************************************)
(* C30: the skip set is consulted by the automatic hook only.  In manual   *)
(* mode no request is bypassed, and after request.sanitize() every present *)
(* target field holds its sanitized form also when the normalised URL of   *)
(* the request is in the skip set; in auto mode request.sanitize is not    *)
(* installed, and no request is sanitized by a call of it.                 *)
(***************************************************************************)
InSkipSet == cleanUrl(Str(request.url)) \in skipRoutes
C30_SkipSetAutoOnly ==
  /\ (Registered /\ opt.mode = "auto") => (~decorator /\ passed = NoOptions /\ calls <= 1)
  /\ Manual => ~bypassed
  /\ (Manual /\ Handled /\ InSkipSet) =>
       \A f \in Fields :
         request[f] = IF Truthy(received[f]) THEN SanitizedForm(f) ELSE received[f]

C30_Witness ==
  /\ Manual
  /\ HandledOnce
  /\ InSkipSet
  /\ request.url = uHealthQuery
  /\ received.body = Obj(<<Entry(sOpA, Str(sB))>>)
  /\ request.body = Obj(<<Entry(sA, Str(sB))>>)

====
